---- MODULE Spec2Model ----
(***************************************************************************)
(* Mood music service: the full service (src/app.py) and its request      *)
(* handlers.  The catalog is scanned once from the mood directories, the   *)
(* song handler tries the external provider and the local selector in the  *)
(* order of the code, and the last-served map is the only state a request  *)
(* changes.                                                                *)
(***************************************************************************)
EXTENDS Integers, Sequences, FiniteSets, TLC

\* ---------------------------------------------------------------- bounds
\* at most this many entries in the mood directories, all together
MaxFiles == 2
\* at most this many tracks in one search result page
MaxTracks == 2
\* at most this many song requests in flight at once
MaxThreads == 2

\* ------------------------------------------------------------- constants
Moods == {"happy", "sad", "angry", "neutral", "surprised", "fearful", "disgusted"}

\* the fallback moods in another order
fallback_order_happy_first == <<"happy", "neutral", "sad", "angry">>

\* every mood a fallback
fallback_order_every_mood ==
    <<"neutral", "happy", "sad", "angry", "surprised", "fearful", "disgusted">>

fallback_order == <<"neutral", "happy", "sad", "angry">>

\* Python None where a file name is expected (last served, no file chosen)
None == <<>>

\* JSON null / absent key where a string is expected (token, preview_url)
Null == "null"

\* Python truthiness of an optional string: None and "" are falsy
Truthy(v) == v \notin {Null, ""}

\* ------------------------------------------------------ strings of the model
\* str.lower() on the characters that occur in the model's file names
LowerChar(c) ==
    CASE c = "M" -> "m"
      [] c = "P" -> "p"
      [] c = "W" -> "w"
      [] OTHER -> c

\* str.lower() of a file name, a sequence of characters
lower(s) == [i \in 1..Len(s) |-> LowerChar(s[i])]

\* str.endswith(suffix)
endswith(s, suffix) ==
    /\ Len(s) >= Len(suffix)
    /\ SubSeq(s, Len(s) - Len(suffix) + 1, Len(s)) = suffix

DotMp3 == <<".", "m", "p", "3">>

\* the mood path segments a client sends, and str.lower() of each
RequestMoods == {"happy", "HAPPY", "surprised", "calm"}

lowerMood(m) == IF m = "HAPPY" THEN "happy" ELSE m

\* ------------------------------------------------------------ directories
Stems == <<"a", "b", "c", "d", "e", "f">>

\* the extensions of the entries of the music directories
Mp3Ext == <<".", "m", "p", "3">>
UpperExt == <<".", "M", "P", "3">>
WavExt == <<".", "w", "a", "v">>

Exts == {Mp3Ext, UpperExt, WavExt}

\* a directory that does not exist, and one that holds the entries `names`
NoDir == [isdir |-> FALSE, entries |-> <<>>]
Dir(names) == [isdir |-> TRUE, entries |-> names]

\* the listing of k entries a.mp3, b.mp3, ... in the order os.listdir yields
PlainListing(k) == [i \in 1..k |-> <<Stems[i]>> \o Mp3Ext]

\* the entries dropped into the mood folders, one after the other: each goes
\* to a mood folder and has one of the extensions
Drops == UNION {[1..n -> Moods \X Exts] : n \in 0..MaxFiles}

\* the folder of mood m after the drops: its entries are named a, b, ... in
\* listing order; a folder without entries is missing when `bare`, else empty
DroppedFolder(drops, m, bare) ==
    LET mine == SelectSeq(drops, LAMBDA d : d[1] = m)
    IN  IF mine = <<>> /\ bare THEN NoDir
        ELSE Dir([i \in 1..Len(mine) |-> <<Stems[i]>> \o mine[i][2]])

MixedDisks ==
    {[m \in Moods |-> DroppedFolder(drops, m, bare)] :
       drops \in Drops, bare \in BOOLEAN}

\* a file that appears in a mood folder after startup
LateFile == <<"z">> \o Mp3Ext

\* ------------------------------------------------------------ the provider
\* search phrase per mood; dict.get(mood, 'music') for any other mood
mood_to_spotify_terms(mood) ==
    CASE mood = "happy" -> "upbeat happy energetic"
      [] mood = "sad" -> "sad melancholic emotional"
      [] mood = "angry" -> "intense aggressive powerful"
      [] mood = "neutral" -> "calm peaceful ambient"
      [] mood = "surprised" -> "energetic exciting dynamic"
      [] mood = "fearful" -> "dark atmospheric tense"
      [] mood = "disgusted" -> "intense dramatic"
      [] OTHER -> "music"

\* What requests.post to the token endpoint can do: raise (network error),
\* answer with a non-200 status, answer 200 with a body that is no JSON
\* object (json() or .get raises), or answer 200 with a JSON object whose
\* access_token is absent (null), empty or a token.
TokenReplies ==
    {[error |-> TRUE, status_code |-> 0, json_ok |-> FALSE, access_token |-> Null],
     [error |-> FALSE, status_code |-> 401, json_ok |-> TRUE, access_token |-> Null],
     [error |-> FALSE, status_code |-> 200, json_ok |-> FALSE, access_token |-> Null]}
    \cup {[error |-> FALSE, status_code |-> 200, json_ok |-> TRUE, access_token |-> t] :
             t \in {Null, "", "tok"}}

\* A track of a search page: its name, its preview_url (null, empty or a
\* URL) and whether it carries every key the result is built from (name,
\* artists, external_urls, album); a missing key raises KeyError when the
\* track is used.
TrackKinds ==
    {[name |-> "silent", preview_url |-> Null, complete |-> TRUE],
     [name |-> "blank", preview_url |-> "", complete |-> TRUE],
     [name |-> "playable", preview_url |-> "https://p", complete |-> TRUE],
     [name |-> "broken", preview_url |-> "https://p", complete |-> FALSE]}

\* tracks.items of a page
TrackPages == UNION {[1..k -> TrackKinds] : k \in 0..MaxTracks}

\* What requests.get to the search endpoint can do: raise (network error,
\* timeout), answer non-200, answer 200 with a body that is no JSON object of
\* the expected shape, or answer 200 with a page of tracks.
SearchReplies ==
    {[error |-> TRUE, status_code |-> 0, json_ok |-> FALSE, items |-> <<>>],
     [error |-> FALSE, status_code |-> 429, json_ok |-> TRUE, items |-> <<>>],
     [error |-> FALSE, status_code |-> 200, json_ok |-> FALSE, items |-> <<>>]}
    \cup {[error |-> FALSE, status_code |-> 200, json_ok |-> TRUE, items |-> page] :
             page \in TrackPages}

NoSearchReply == [error |-> FALSE, status_code |-> 0, json_ok |-> FALSE, items |-> <<>>]

\* search_spotify_track returning None: no track
NoTrack == [name |-> "", preview_url |-> Null]

\* random.choice(seq) with random draw r
random_choice(seq, r) == seq[(r % Len(seq)) + 1]

VARIABLES
    disk,                  \* mood -> directory under static/static_music
    mood_to_files,         \* the catalog built at startup
    last_served_for_mood,  \* mood -> last file served, or None
    SPOTIFY_CLIENT_ID,
    SPOTIFY_CLIENT_SECRET,
    request,               \* the latest request as the handler parsed it
    response,              \* the HTTP response of the latest request
    calls,                 \* external calls of the latest request, in order
    external,              \* what the latest request saw of the provider
    search_call,           \* the latest direct call of search_spotify_track
    search_return,         \* and what it returned
    startup_disk,          \* history: the directories as they were at startup
    last_local,            \* history: mood -> file of its latest local response
    previous_local,        \* history: the file of the local response before
                           \* the latest one with the same mood
    in_flight,             \* thread -> the local variables of its song request
                           \* between the read and the write of the last-served
                           \* entry
    variant                \* the local-only variant of the service run beside
                           \* this one: its catalog, its last-served map and
                           \* its latest response

vars == <<disk, mood_to_files, last_served_for_mood, SPOTIFY_CLIENT_ID,
          SPOTIFY_CLIENT_SECRET, request, response, calls, external, search_call,
          search_return, startup_disk,
          last_local, previous_local, in_flight, variant>>

\* ---------------------------------------------------------------- startup
\* the extension test without lower()
is_mp3_case_sensitive(filename) == endswith(filename, DotMp3)

\* filename.lower().endswith('.mp3')
is_mp3(filename) == endswith(lower(filename), DotMp3)

\* the catalog entry that names the folder only
file_path_folder(mood, filename) == <<mood, "/">>


\* f"{mood}/{filename}"
file_path(mood, filename) == <<mood, "/">> \o filename

\* the scan of one mood folder: nothing when it is no directory, else the
\* entries that end in .mp3, in listing order, as "<mood>/<filename>"
scan_mood_folder(mood, folder) ==
    IF folder.isdir
    THEN LET kept == SelectSeq(folder.entries, is_mp3)
         IN  [i \in 1..Len(kept) |-> file_path(mood, kept[i])]
    ELSE <<>>

\* the provider enabled by either credential
USE_SPOTIFY_either == SPOTIFY_CLIENT_ID # "" \/ SPOTIFY_CLIENT_SECRET # ""

USE_SPOTIFY == SPOTIFY_CLIENT_ID # "" /\ SPOTIFY_CLIENT_SECRET # ""

NoRequest == [path |-> "", mood |-> "", use_spotify |-> FALSE]
NoResponse == [status |-> 0, json |-> [ok |-> FALSE]]
NoSearchCall == [mood |-> "", token |-> Null, reply |-> NoSearchReply, r |-> 0]
NoExternal == [token |-> Null, log |-> <<>>, spotify_track |-> NoTrack]
Threads == 1..MaxThreads
Idle == [pc |-> "idle", mood |-> "", previous |-> None, chosen |-> None]

\* the state create_app leaves behind for the directories `d`
Started(d) ==
    /\ disk = d
    /\ startup_disk = d
    /\ mood_to_files = [m \in Moods |-> scan_mood_folder(m, d[m])]
    /\ last_served_for_mood = [m \in Moods |-> None]
    /\ SPOTIFY_CLIENT_ID \in {"", "id"}
    /\ SPOTIFY_CLIENT_SECRET \in {"", "secret"}
    /\ request = NoRequest
    /\ response = NoResponse
    /\ calls = <<>>
    /\ external = NoExternal
    /\ search_call = NoSearchCall
    /\ search_return = NoTrack
    /\ last_local = [m \in Moods |-> None]
    /\ previous_local = None
    /\ in_flight = [t \in Threads |-> Idle]
    /\ variant = [mood_to_files |-> [m \in Moods |-> scan_mood_folder(m, d[m])],
                  last_served_for_mood |-> [m \in Moods |-> None],
                  response |-> NoResponse]

RECURSIVE Total(_, _)
Total(count, S) ==
    IF S = {} THEN 0
    ELSE LET m == CHOOSE x \in S : TRUE IN count[m] + Total(count, S \ {m})

\* the directories with at most MaxFiles entries in all: a mood folder exists
\* when it holds a file, and holds a.mp3, b.mp3, ...
PlainDisks ==
    {[m \in Moods |-> IF count[m] > 0 THEN Dir(PlainListing(count[m])) ELSE NoDir] :
       count \in {c \in [Moods -> 0..MaxFiles] : Total(c, Moods) <= MaxFiles}}

Init == \E d \in PlainDisks : Started(d)

\* ------------------------------------------------------- get_spotify_token
TokenCall == [api |-> "token", q |-> ""]
SearchCall(mood) == [api |-> "search", q |-> mood_to_spotify_terms(mood)]

\* the try block of get_spotify_token: the POST raises, or json()/.get raise
\* on a 200 body that is no JSON object, or the token of a 200 reply is
\* returned; any other status falls through to `return None`
token_try(reply) ==
    IF reply.error
    THEN [raised |-> TRUE, value |-> Null]
    ELSE IF reply.status_code = 200
         THEN IF reply.json_ok
              THEN [raised |-> FALSE, value |-> reply.access_token]
              ELSE [raised |-> TRUE, value |-> Null]
         ELSE [raised |-> FALSE, value |-> Null]

\* get_spotify_token without the except clause
get_spotify_token_uncaught(reply) ==
    IF ~USE_SPOTIFY
    THEN [raised |-> FALSE, value |-> Null, calls |-> <<>>, log |-> <<>>]
    ELSE LET got == token_try(reply)
         IN  [raised |-> got.raised, value |-> got.value,
              calls |-> <<TokenCall>>, log |-> <<>>]

\* get_spotify_token: no call without credentials; `except Exception` turns
\* every raise of the try block into None and prints the error (log)
get_spotify_token(reply) ==
    IF ~USE_SPOTIFY
    THEN [raised |-> FALSE, value |-> Null, calls |-> <<>>, log |-> <<>>]
    ELSE LET got == token_try(reply)
         IN  [raised |-> FALSE,
              value |-> IF got.raised THEN Null ELSE got.value,
              calls |-> <<TokenCall>>,
              log |-> IF got.raised THEN <<"Spotify token error">> ELSE <<>>]

\* ---------------------------------------------------- search_spotify_track
\* t.get('preview_url') as a condition
has_preview(t) == Truthy(t.preview_url)

\* no preference for tracks with a preview
tracks_to_use_all(tracks) == tracks

\* tracks with a preview first, all tracks when none has one
tracks_to_use(tracks) ==
    LET tracks_with_preview == SelectSeq(tracks, has_preview)
    IN  IF tracks_with_preview # <<>> THEN tracks_with_preview ELSE tracks

\* the try block of search_spotify_track, with random draw r
search_try(reply, r) ==
    IF reply.error
    THEN [raised |-> TRUE, value |-> NoTrack]
    ELSE IF reply.status_code = 200
         THEN IF ~reply.json_ok
              THEN [raised |-> TRUE, value |-> NoTrack]
              ELSE IF reply.items # <<>>
                   THEN LET track == random_choice(tracks_to_use(reply.items), r)
                        IN  IF track.complete
                            THEN [raised |-> FALSE,
                                  value |-> [name |-> track.name,
                                             preview_url |-> track.preview_url]]
                            ELSE [raised |-> TRUE, value |-> NoTrack]
                   ELSE [raised |-> FALSE, value |-> NoTrack]
         ELSE [raised |-> FALSE, value |-> NoTrack]

\* search_spotify_track: no call without a token; `except Exception` turns
\* every raise of the try block into None and prints the error (log)
search_spotify_track(mood, token, reply, r) ==
    IF ~Truthy(token)
    THEN [raised |-> FALSE, value |-> NoTrack, calls |-> <<>>, log |-> <<>>]
    ELSE LET got == search_try(reply, r)
         IN  [raised |-> FALSE,
              value |-> IF got.raised THEN NoTrack ELSE got.value,
              calls |-> <<SearchCall(mood)>>,
              log |-> IF got.raised THEN <<"Spotify search error">> ELSE <<>>]

\* what get_spotify_token can return, over every reply of the token endpoint
token_results == {get_spotify_token(treply) : treply \in TokenReplies}

\* what search_spotify_track can return, over every reply of the search
\* endpoint and every random draw
search_results(mood, token) ==
    {search_spotify_track(mood, token, sreply, r) :
       sreply \in SearchReplies, r \in 0..(MaxTracks - 1)}

\* `token = get_spotify_token()`, then `if token: spotify_track =
\* search_spotify_track(mood, token)`: what one attempt at the provider does
\* once the token function has returned `tok`.
\* raised: an exception left one of the two functions.
attempts_after(mood, tok) ==
    IF tok.raised
    THEN {[raised |-> TRUE, calls |-> tok.calls, log |-> tok.log,
           token |-> Null, spotify_track |-> NoTrack]}
    ELSE IF Truthy(tok.value)
         THEN {[raised |-> found.raised,
                calls |-> tok.calls \o found.calls,
                log |-> tok.log \o found.log,
                token |-> tok.value,
                spotify_track |-> found.value] :
                 found \in search_results(mood, tok.value)}
         ELSE {[raised |-> FALSE, calls |-> tok.calls, log |-> tok.log,
                token |-> tok.value, spotify_track |-> NoTrack]}

\* one attempt at the provider, over everything the two endpoints can reply
spotify_attempts(mood) ==
    UNION {attempts_after(mood, tok) : tok \in token_results}

NoAttempt ==
    [raised |-> FALSE, calls |-> <<>>, log |-> <<>>, token |-> Null,
     spotify_track |-> NoTrack]

\* a later attempt of the same request after an earlier one
then_attempt(first, second) ==
    [second EXCEPT !.calls = first.calls \o second.calls,
                   !.log = first.log \o second.log]

\* ------------------------------------------------------------- responses
\* the `spotify` query values a client sends (Null: parameter absent), and
\* request.args.get('spotify', 'false').lower() == 'true'
SpotifyArgs == {Null, "true", "TRUE", "false", "1"}

lowerArg(a) == IF a = "TRUE" THEN "true" ELSE a

parse_use_spotify(arg) == lowerArg(IF arg = Null THEN "false" ELSE arg) = "true"

spotify_json(mood, spotify_track) ==
    [status |-> 200,
     json |-> [ok |-> TRUE, source |-> "spotify", mood |-> mood,
               name |-> spotify_track.name,
               preview_url |-> spotify_track.preview_url]]

local_json(mood, chosen) ==
    [status |-> 200,
     json |-> [ok |-> TRUE, source |-> "local",
               path |-> <<"/static/static_music/">> \o chosen,
               mood |-> mood, file |-> chosen]]

\* the failure message without the 404
not_found_json_200 ==
    [status |-> 200,
     json |-> [ok |-> FALSE,
               message |-> IF USE_SPOTIFY THEN "no files; spotify configured"
                           ELSE "no files"]]

not_found_json ==
    [status |-> 404,
     json |-> [ok |-> FALSE,
               message |-> IF USE_SPOTIFY THEN "no files; spotify configured"
                           ELSE "no files"]]

\* an exception that leaves the view function: Flask answers 500
server_error == [status |-> 500, json |-> [ok |-> FALSE]]

\* ----------------------------------------------------------- local selector
\* mood_to_files.get(mood, [])
files_of(mood) == IF mood \in DOMAIN mood_to_files THEN mood_to_files[mood] ELSE <<>>

has_files(fb) == mood_to_files[fb] # <<>>

\* the files of the mood and no fallback
resolve_files_own(mood) == files_of(mood)


\* the files of the mood, else of the first fallback mood that has any
resolve_files(mood) ==
    IF files_of(mood) # <<>>
    THEN files_of(mood)
    ELSE LET hits == SelectSeq(fallback_order, has_files)
         IN  IF hits # <<>> THEN mood_to_files[hits[1]] ELSE <<>>

\* last_served_for_mood.get(mood)
previous_of(mood) ==
    IF mood \in DOMAIN last_served_for_mood THEN last_served_for_mood[mood] ELSE None

\* choose_file that forgets the file served last
choose_file_any(mood, files, r) == random_choice(files, r)

\* choose_file without the single-file case and without the full-list case
choose_file_strict(mood, files, r) ==
    LET previous == previous_of(mood)
        candidates == SelectSeq(files, LAMBDA f : f # previous)
    IN  IF candidates # <<>> THEN random_choice(candidates, r) ELSE None

\* the only file, else a random one that is not the previous one
choose_file(mood, files, r) ==
    IF Len(files) = 1
    THEN files[1]
    ELSE LET previous == previous_of(mood)
             candidates == SelectSeq(files, LAMBDA f : f # previous)
         IN  IF candidates # <<>> THEN random_choice(candidates, r)
             ELSE random_choice(files, r)

\* the write that sets the entry of every mood
set_last_served_everywhere(served, mood, chosen) ==
    [m \in DOMAIN served \cup {mood} |-> chosen]

\* last_served_for_mood[mood] = chosen
set_last_served(served, mood, chosen) ==
    [m \in DOMAIN served \cup {mood} |-> IF m = mood THEN chosen ELSE served[m]]

\* ------------------------------------------------------- get_song_for_mood
Startup == <<startup_disk, mood_to_files, SPOTIFY_CLIENT_ID, SPOTIFY_CLIENT_SECRET>>

\* what no request handler touches
Outside == <<disk, search_call, search_return, in_flight>>

\* a request that ends without a local selection and forgets what was served
Answer_forgetting(req, resp, attempt) ==
    /\ request' = req
    /\ response' = resp
    /\ calls' = attempt.calls
    /\ external' = [token |-> attempt.token, log |-> attempt.log,
                    spotify_track |-> attempt.spotify_track]
    /\ previous_local' = None
    /\ last_served_for_mood' = [m \in DOMAIN last_served_for_mood |-> None]
    /\ UNCHANGED last_local
    /\ UNCHANGED <<Startup, Outside>>


\* the request ends without a local selection
Answer(req, resp, attempt) ==
    /\ request' = req
    /\ response' = resp
    /\ calls' = attempt.calls
    /\ external' = [token |-> attempt.token, log |-> attempt.log,
                    spotify_track |-> attempt.spotify_track]
    /\ previous_local' = None
    /\ UNCHANGED <<last_served_for_mood, last_local>>
    /\ UNCHANGED <<Startup, Outside>>

\* the request ends with the local file `chosen`
AnswerLocal(req, chosen, attempt) ==
    /\ request' = req
    /\ response' = local_json(req.mood, chosen)
    /\ calls' = attempt.calls
    /\ external' = [token |-> attempt.token, log |-> attempt.log,
                    spotify_track |-> attempt.spotify_track]
    /\ last_served_for_mood' = set_last_served(last_served_for_mood, req.mood, chosen)
    /\ previous_local' = (IF req.mood \in DOMAIN last_local THEN last_local[req.mood]
                          ELSE None)
    /\ last_local' = set_last_served(last_local, req.mood, chosen)
    /\ UNCHANGED <<Startup, Outside>>

\* the first attempt returning any track found
has_preview_url_any(spotify_track) == TRUE

\* `if spotify_track.get('preview_url')` of the first attempt
has_preview_url(spotify_track) == Truthy(spotify_track.preview_url)

\* `if spotify_track and spotify_track.get('preview_url')` of the last resort
playable(spotify_track) == spotify_track # NoTrack /\ Truthy(spotify_track.preview_url)

\* the last resort tried whatever the flag says
spotify_as_fallback_always(use_spotify) == USE_SPOTIFY


\* no last resort
spotify_as_fallback_never(use_spotify) == FALSE

\* `if USE_SPOTIFY and not use_spotify`: the provider as the last resort
spotify_as_fallback(use_spotify) == USE_SPOTIFY /\ ~use_spotify

\* the local part of the handler trying the provider after a file was chosen
LocalFiles_then_provider(req, first) ==
    LET files == resolve_files(req.mood)
    IN  IF files = <<>>
        THEN Answer(req, not_found_json, first)
        ELSE \E chosen \in {choose_file(req.mood, files, r) : r \in 0..(MaxFiles - 1)},
                second \in spotify_attempts(req.mood) :
               AnswerLocal(req, chosen, then_attempt(first, second))


\* from "Fallback to local files" to the end of the handler; `first` is the
\* attempt already made (NoAttempt when none was)
LocalFiles(req, first) ==
    LET files == resolve_files(req.mood)
        AfterFallback(second) ==
            LET attempt == then_attempt(first, second)
            IN  IF attempt.raised
                THEN Answer(req, server_error, attempt)
                ELSE IF playable(attempt.spotify_track)
                     THEN Answer(req, spotify_json(req.mood, attempt.spotify_track),
                                 attempt)
                     ELSE Answer(req, not_found_json, attempt)
    IN  IF files = <<>>
        THEN IF spotify_as_fallback(req.use_spotify)
             THEN \E second \in spotify_attempts(req.mood) : AfterFallback(second)
             ELSE Answer(req, not_found_json, first)
        ELSE \E chosen \in {choose_file(req.mood, files, r) : r \in 0..(MaxFiles - 1)} :
               AnswerLocal(req, chosen, first)

\* `mood = mood.lower()` and `use_spotify = ...` of the handler
parse_request(raw, arg) ==
    [path |-> "/api/song", mood |-> lowerMood(raw),
     use_spotify |-> parse_use_spotify(arg)]

\* GET /api/song/<mood>?spotify=<arg>
GetSong ==
    \E req \in {parse_request(raw, arg) : raw \in RequestMoods, arg \in SpotifyArgs} :
      LET AfterFirst(attempt) ==
              IF attempt.raised
              THEN Answer(req, server_error, attempt)
              ELSE IF attempt.spotify_track # NoTrack
                   THEN IF has_preview_url(attempt.spotify_track)
                        THEN Answer(req,
                                    spotify_json(req.mood, attempt.spotify_track),
                                    attempt)
                        ELSE LocalFiles(req, attempt)
                   ELSE LocalFiles(req, attempt)
      IN  IF req.use_spotify
          THEN IF ~USE_SPOTIFY
               THEN LocalFiles(req, NoAttempt)
               ELSE \E attempt \in spotify_attempts(req.mood) : AfterFirst(attempt)
          ELSE LocalFiles(req, NoAttempt)

\* GET /api/status
GetStatus ==
    /\ request' = [path |-> "/api/status", mood |-> "", use_spotify |-> FALSE]
    /\ response' =
         [status |-> 200,
          json |-> [spotify_configured |-> USE_SPOTIFY,
                    spotify_client_id_set |-> SPOTIFY_CLIENT_ID # "",
                    local_files_available |->
                        (\E m \in DOMAIN mood_to_files : Len(mood_to_files[m]) > 0),
                    mood_files |-> [m \in DOMAIN mood_to_files |->
                                       Len(mood_to_files[m])]]]
    /\ calls' = <<>>
    /\ external' = NoExternal
    /\ previous_local' = None
    /\ UNCHANGED <<last_served_for_mood, last_local>>
    /\ UNCHANGED <<Startup, Outside, variant>>

\* GET /
index ==
    /\ request' = [path |-> "/", mood |-> "", use_spotify |-> FALSE]
    /\ response' = [status |-> 200, json |-> [ok |-> TRUE, html |-> "index.html"]]
    /\ calls' = <<>>
    /\ external' = NoExternal
    /\ previous_local' = None
    /\ UNCHANGED <<last_served_for_mood, last_local>>
    /\ UNCHANGED <<Startup, Outside, variant>>

\* a song request to this service alone
SongRequest == GetSong /\ UNCHANGED variant

Next == SongRequest \/ GetStatus \/ index

Spec == Init /\ [][Next]_vars

\* ------------------------------------------------- the scan and the status
\* The music directories change under the running service: every mood folder
\* is replaced by one that holds a new file and nothing else.
ChangeMusic ==
    /\ disk # [m \in Moods |-> Dir(<<LateFile>>)]
    /\ disk' = [m \in Moods |-> Dir(<<LateFile>>)]
    /\ UNCHANGED <<Startup, request, response, calls, external, search_call,
                   search_return, last_served_for_mood, last_local, previous_local,
                   in_flight, variant>>

\* startup on directories with mixed entries, the provider not configured
InitScan ==
    /\ \E d \in MixedDisks : Started(d)
    /\ SPOTIFY_CLIENT_ID = ""
    /\ SPOTIFY_CLIENT_SECRET = ""

NextScan == SongRequest \/ GetStatus \/ index \/ ChangeMusic

SpecScan == InitScan /\ [][NextScan]_vars

\* ------------------------------------------- search_spotify_track by itself
\* one call of search_spotify_track with any token, reply and random draw
SearchTrack ==
    /\ search_call = NoSearchCall
    /\ \E mood \in {lowerMood(raw) : raw \in RequestMoods}, token \in {Null, "", "tok"},
          sreply \in SearchReplies, r \in 0..(MaxTracks - 1) :
         /\ search_call' = [mood |-> mood, token |-> token, reply |-> sreply, r |-> r]
         /\ search_return' = search_spotify_track(mood, token, sreply, r).value
    /\ UNCHANGED <<Startup, disk, request, response, calls, external,
                   last_served_for_mood, last_local, previous_local, in_flight,
                   variant>>

\* startup without music
InitSearch ==
    /\ Started([m \in Moods |-> NoDir])

NextSearch == SearchTrack

SpecSearch == InitSearch /\ [][NextSearch]_vars


\* --------------------------------------------- song requests side by side
\* Song requests served by several threads, the provider not configured and
\* the flag absent. A thread runs the handler up to the choice of the file
\* (the read of the last-served entry included) in one step, and the write of
\* the entry and the response in a later one; a request that resolves no file
\* is answered at once.
ConcMoods == {"happy", "HAPPY", "surprised"}

\* files, if any, in the folders of happy and surprised only
ConcDisks == {d \in PlainDisks : \A m \in Moods \ {"happy", "surprised"} : ~d[m].isdir}

BeginSong(t) ==
    /\ in_flight[t] = Idle
    /\ UNCHANGED variant
    /\ \E req \in {parse_request(raw, Null) : raw \in ConcMoods} :
         LET files == resolve_files(req.mood)
         IN  IF files = <<>>
             THEN Answer(req, not_found_json, NoAttempt)
             ELSE /\ \E chosen \in {choose_file(req.mood, files, r) :
                                      r \in 0..(MaxFiles - 1)} :
                       in_flight' =
                         [in_flight EXCEPT ![t] =
                            [pc |-> "chosen", mood |-> req.mood,
                             previous |-> IF Len(files) = 1 THEN None
                                          ELSE previous_of(req.mood),
                             chosen |-> chosen]]
                  /\ UNCHANGED <<Startup, disk, search_call, search_return,
                                 request, response, calls, external,
                                 last_served_for_mood, last_local, previous_local>>

FinishSong(t) ==
    /\ in_flight[t].pc = "chosen"
    /\ LET mood == in_flight[t].mood
           chosen == in_flight[t].chosen
       IN  /\ request' = [path |-> "/api/song", mood |-> mood, use_spotify |-> FALSE]
           /\ response' = local_json(mood, chosen)
           /\ last_served_for_mood' = set_last_served(last_served_for_mood, mood, chosen)
           /\ previous_local' = (IF mood \in DOMAIN last_local THEN last_local[mood]
                                 ELSE None)
           /\ last_local' = set_last_served(last_local, mood, chosen)
    /\ calls' = <<>>
    /\ external' = NoExternal
    /\ in_flight' = [in_flight EXCEPT ![t] = Idle]
    /\ UNCHANGED <<Startup, disk, search_call, search_return, variant>>

InitConc ==
    /\ \E d \in ConcDisks : Started(d)
    /\ SPOTIFY_CLIENT_ID = ""
    /\ SPOTIFY_CLIENT_SECRET = ""

NextConc == (\E t \in Threads : BeginSong(t)) \/ (\E t \in Threads : FinishSong(t))

SpecConc == InitConc /\ [][NextConc]_vars


\* ------------------------------------------------- the local-only variant
\* templates/mini_project_AIML/mood_music/app.py: the same catalog scan, no
\* provider, no /api/status. `v` is the variant's state.
variant_fallback_order == <<"neutral", "happy", "sad", "angry">>

\* the variant taking the path segment as it came
variant_mood_as_sent(raw) == raw

\* `mood = mood.lower()`
variant_mood(raw) == lowerMood(raw)

\* mood_to_files.get(mood, []), then the first fallback mood that has files
variant_files(v, mood) ==
    LET own == IF mood \in DOMAIN v.mood_to_files THEN v.mood_to_files[mood] ELSE <<>>
        hits == SelectSeq(variant_fallback_order,
                          LAMBDA fb : v.mood_to_files[fb] # <<>>)
    IN  IF own # <<>> THEN own
        ELSE IF hits # <<>> THEN v.mood_to_files[hits[1]] ELSE <<>>

\* the only file, else a random one that is not the previous one
variant_choose(v, mood, files, r) ==
    IF Len(files) = 1
    THEN files[1]
    ELSE LET previous == IF mood \in DOMAIN v.last_served_for_mood
                         THEN v.last_served_for_mood[mood] ELSE None
             candidates == SelectSeq(files, LAMBDA f : f # previous)
         IN  IF candidates # <<>> THEN random_choice(candidates, r)
             ELSE random_choice(files, r)

\* GET /api/song/<raw> of the variant, with the random draw `r`
variant_get_song(v, raw, r) ==
    LET mood == variant_mood(raw)
        files == variant_files(v, mood)
    IN  IF files = <<>>
        THEN [v EXCEPT !.response =
                [status |-> 404, json |-> [ok |-> FALSE, message |-> "no files"]]]
        ELSE LET chosen == variant_choose(v, mood, files, r)
             IN  [v EXCEPT
                    !.last_served_for_mood = set_last_served(@, mood, chosen),
                    !.response =
                      [status |-> 200,
                       json |-> [ok |-> TRUE,
                                 path |-> <<"/static/static_music/">> \o chosen,
                                 mood |-> mood, file |-> chosen]]]

\* the same song request sent to both services, and the same random draw `r`
\* in both: the full service handles it with any value of the flag
PairSong ==
    \E raw \in RequestMoods, r \in 0..(MaxFiles - 1) :
      /\ GetSong
      /\ request'.mood = lowerMood(raw)
      /\ (response'.status = 200 /\ response'.json.source = "local") =>
           response'.json.file
             = choose_file(request'.mood, resolve_files(request'.mood), r)
      /\ variant' = variant_get_song(variant, raw, r)

\* both services started on the same directories, the provider not configured
InitPair ==
    /\ \E d \in PlainDisks : Started(d)
    /\ ~USE_SPOTIFY

NextPair == PairSong

SpecPair == InitPair /\ [][NextPair]_vars

\* ================================================================ claims
IsSong == request.path = "/api/song"
IsLocal == IsSong /\ response.status = 200 /\ response.json.source = "local"
IsSpotify == IsSong /\ response.status = 200 /\ response.json.source = "spotify"
IsNotFound == IsSong /\ response.status = 404 /\ response.json.ok = FALSE

Range(seq) == {seq[i] : i \in 1..Len(seq)}

\* the catalog list of a mood name; no list for a name outside the seven
OwnList(m) == IF m \in Moods THEN mood_to_files[m] ELSE <<>>

FallbackPriority == <<"neutral", "happy", "sad", "angry">>

\* the requested mood and the four fallback moods have no file
NothingLocal(m) ==
    /\ OwnList(m) = <<>>
    /\ \A fb \in {"neutral", "happy", "sad", "angry"} : mood_to_files[fb] = <<>>

BothCredentials == SPOTIFY_CLIENT_ID # "" /\ SPOTIFY_CLIENT_SECRET # ""

\* the request's attempt at the provider found a track with a preview
FoundPlayable == external.spotify_track.preview_url \notin {Null, ""}
FoundUnplayable ==
    /\ external.spotify_track.name # ""
    /\ external.spotify_track.preview_url \in {Null, ""}

\* C1: for a mood whose own list holds at least 2 distinct files, a local
\* response for it never carries the file of the previous local response for
\* the same mood, whatever was requested in between.
C1_NoImmediateRepeat ==
    (/\ IsLocal
     /\ Cardinality(Range(OwnList(request.mood))) >= 2
     /\ previous_local # None)
    => response.json.file # previous_local

\* a second local response for a mood with 2 files, after a local response
\* for another mood
C1_Witness ==
    /\ IsLocal
    /\ request.mood = "happy"
    /\ Cardinality(Range(OwnList("happy"))) >= 2
    /\ previous_local # None
    /\ "surprised" \in DOMAIN last_local
    /\ last_local["surprised"] # None

\* C2 as stated: with nothing local for the mood and the four fallback moods,
\* every song request ends in 404 with ok:false, whatever the flag and the
\* provider configuration.
C2_AlwaysNotFound ==
    (IsSong /\ NothingLocal(request.mood)) => IsNotFound

\* C2 amended: with nothing local, the request ends in 404 with ok:false
\* unless its attempt at the provider found a track with a preview, and then
\* it ends in the 200 external-track response; without both credentials it
\* always ends in 404.
C2_NotFoundUnlessPlayable ==
    (IsSong /\ NothingLocal(request.mood))
    => /\ IF FoundPlayable THEN IsSpotify ELSE IsNotFound
       /\ ~BothCredentials => IsNotFound

\* nothing local, the flag set, the provider configured and without a
\* playable track: 404
C2_Witness ==
    /\ IsSong
    /\ NothingLocal(request.mood)
    /\ request.use_spotify
    /\ BothCredentials
    /\ IsNotFound

\* C3: the file of a local response is in the requested mood's own list when
\* that list has a file, else in the list of the first mood of neutral,
\* happy, sad, angry that has a file.
C3_MoodResolution ==
    IsLocal =>
      IF OwnList(request.mood) # <<>>
      THEN response.json.file \in Range(OwnList(request.mood))
      ELSE \E i \in 1..Len(FallbackPriority) :
             /\ mood_to_files[FallbackPriority[i]] # <<>>
             /\ \A j \in 1..(i - 1) : mood_to_files[FallbackPriority[j]] = <<>>
             /\ response.json.file \in Range(mood_to_files[FallbackPriority[i]])

\* a mood without files served from happy while neutral is empty and sad has
\* a file too
C3_Witness ==
    /\ IsLocal
    /\ request.mood = "surprised"
    /\ mood_to_files["surprised"] = <<>>
    /\ mood_to_files["neutral"] = <<>>
    /\ mood_to_files["happy"] # <<>>
    /\ mood_to_files["sad"] # <<>>

\* C4: a request with the flag set while not both credentials are configured
\* makes no external call and ends in a local-file response or in 404.
C4_NoCallWithoutCredentials ==
    (IsSong /\ request.use_spotify /\ ~BothCredentials)
    => /\ calls = <<>>
       /\ IsLocal \/ IsNotFound

\* the flag set with the client id alone configured, answered locally
C4_Witness ==
    /\ IsLocal
    /\ request.use_spotify
    /\ SPOTIFY_CLIENT_ID # ""
    /\ SPOTIFY_CLIENT_SECRET = ""

\* C5: for a mood whose own list holds exactly 1 file, every local response
\* carries that file.
C5_SingleFile ==
    (IsLocal /\ Len(OwnList(request.mood)) = 1)
    => response.json.file = OwnList(request.mood)[1]

\* the single file served again right after it was served
C5_Witness ==
    /\ IsLocal
    /\ Len(OwnList(request.mood)) = 1
    /\ previous_local = OwnList(request.mood)[1]

\* C6: whatever the token call and the search call do, a song request ends in
\* the external-track response, the local-file response or 404 with ok:false.
C6_NoServerError ==
    IsSong => /\ response.status \in {200, 404}
              /\ IsSpotify \/ IsLocal \/ IsNotFound

\* a request during which the token call raised, answered locally
C6_Witness ==
    /\ IsLocal
    /\ external.log = <<"Spotify token error">>

\* a request during which the search call raised, answered with 404
C6_WitnessSearch ==
    /\ IsNotFound
    /\ external.log = <<"Spotify search error">>

\* the spellings of the extension that count as .mp3
Mp3Spellings == {<<".", m, p, "3">> : m \in {"m", "M"}, p \in {"p", "P"}}

\* the entries of mood m's folder at startup that end in .mp3, in any case
StartupCount(m) ==
    IF startup_disk[m].isdir
    THEN LET names == startup_disk[m].entries
         IN  Cardinality({i \in 1..Len(names) :
                            /\ Len(names[i]) >= 4
                            /\ SubSeq(names[i], Len(names[i]) - 3, Len(names[i]))
                                 \in Mp3Spellings})
    ELSE 0

\* C7: after any requests and any change of the directories, the catalog
\* holds for each of the seven moods as many files as its folder had .mp3
\* entries (in any case) at startup, 0 for a missing folder, and /api/status
\* reports these counts and local_files_available exactly when one is > 0.
C7_StatusCounts ==
    /\ DOMAIN mood_to_files = Moods
    /\ \A m \in Moods : Len(mood_to_files[m]) = StartupCount(m)
    /\ request.path = "/api/status" =>
         /\ response.status = 200
         /\ DOMAIN response.json.mood_files = Moods
         /\ \A m \in Moods : response.json.mood_files[m] = StartupCount(m)
         /\ response.json.local_files_available
              = (\E m \in Moods : StartupCount(m) > 0)

\* the status asked after a song was served and the directories changed, where
\* a folder held at startup an .MP3 entry and an entry that is no .mp3
C7_Witness ==
    /\ request.path = "/api/status"
    /\ disk # startup_disk
    /\ \E m \in DOMAIN last_local : last_local[m] # None
    /\ \E m \in Moods :
         /\ startup_disk[m].isdir
         /\ \E i \in 1..Len(startup_disk[m].entries) :
              startup_disk[m].entries[i] = <<"a", ".", "M", "P", "3">>
         /\ StartupCount(m) < Len(startup_disk[m].entries)

\* C8: when the page of a search holds a track with a preview, the track
\* search_spotify_track returns is a track of the page with a preview; a
\* track without a preview is returned only when no track of the page has one.
C8_PreviewPreferred ==
    LET items == search_call.reply.items
        previews == {i \in 1..Len(items) : items[i].preview_url \notin {Null, ""}}
    IN  search_return # NoTrack =>
          /\ \E i \in 1..Len(items) :
               /\ items[i].name = search_return.name
               /\ items[i].preview_url = search_return.preview_url
          /\ previews # {} =>
               \E i \in previews : /\ items[i].name = search_return.name
                                    /\ items[i].preview_url = search_return.preview_url
          /\ search_return.preview_url \in {Null, ""} => previews = {}

\* a page with a track without a preview first and one with a preview second,
\* and the random draw that points at the first track of the list
C8_Witness ==
    /\ search_return # NoTrack
    /\ Len(search_call.reply.items) = 2
    /\ search_call.reply.items[1].preview_url = Null
    /\ search_call.reply.items[2].name = "playable"
    /\ search_call.r = 0
    /\ search_return.name = "playable"

\* C9: a response with source spotify carries a non-empty preview_url, and a
\* request whose search found a track without a preview ends in a local-file
\* response when a local file can be resolved, else in 404.
C9_PreviewOrLocal ==
    /\ IsSpotify => response.json.preview_url \notin {Null, ""}
    /\ (IsSong /\ FoundUnplayable) =>
         IF NothingLocal(request.mood) THEN IsNotFound ELSE IsLocal

\* the flag set, a track without a preview found, a local file returned
C9_Witness ==
    /\ IsLocal
    /\ request.use_spotify
    /\ FoundUnplayable
    /\ Len(calls) = 2

\* C10: nothing local, both credentials, flag not set: the token call is
\* made, the search call follows exactly when a token came back, a track
\* with a preview gives the external-track response and anything else 404.
\* With the flag set the provider is not tried a second time.
C10_LastResort ==
    (IsSong /\ NothingLocal(request.mood) /\ BothCredentials) =>
      /\ Len(calls) >= 1
      /\ calls[1].api = "token"
      /\ IF external.token \notin {Null, ""}
         THEN Len(calls) = 2 /\ calls[2].api = "search"
         ELSE Len(calls) = 1
      /\ IF FoundPlayable THEN IsSpotify ELSE IsNotFound

\* the last resort succeeding: no flag, nothing local, an external track
C10_Witness ==
    /\ IsSpotify
    /\ ~request.use_spotify
    /\ NothingLocal(request.mood)
    /\ Len(calls) = 2

\* the last resort failing: no flag, nothing local, no token, 404
C10_WitnessNoToken ==
    /\ IsNotFound
    /\ ~request.use_spotify
    /\ BothCredentials
    /\ Len(calls) = 1

\* the positions of the calls of one request made to `api`
CallsTo(api) == {i \in 1..Len(calls) : calls[i].api = api}

\* C11: a song request makes at most one token call and at most one search
\* call, and a search call only as the second call, right after a token call
\* that returned a token; nothing is called again after a failure.
C11_SingleAttempt ==
    IsSong =>
      /\ Cardinality(CallsTo("token")) <= 1
      /\ Cardinality(CallsTo("search")) <= 1
      /\ \A i \in CallsTo("search") :
           /\ i = 2
           /\ calls[1].api = "token"
           /\ external.token \notin {Null, ""}

\* the flag set, the token call failed, nothing local: 404 after one call
C11_Witness ==
    /\ IsNotFound
    /\ request.use_spotify
    /\ BothCredentials
    /\ NothingLocal(request.mood)
    /\ external.token = Null
    /\ calls = <<TokenCall>>


\* the files a song request for `mood` can be answered with: those of its
\* own list, else those of the first fallback mood that has any
ResolvedList(mood) ==
    IF OwnList(mood) # <<>>
    THEN Range(OwnList(mood))
    ELSE LET first == {i \in 1..Len(FallbackPriority) :
                         /\ mood_to_files[FallbackPriority[i]] # <<>>
                         /\ \A j \in 1..(i - 1) :
                              mood_to_files[FallbackPriority[j]] = <<>>}
         IN  UNION {Range(mood_to_files[FallbackPriority[i]]) : i \in first}

\* C12: with the read of the last-served entry and its write in separate
\* steps of concurrent requests, a local response names a file of the list
\* resolved for its mood, every last-served entry is None or a file of the
\* list resolved for its mood, and a request that read an entry chose a file
\* other than the one it read (the single file of a one-file list aside).
C12_RaceKeepsCatalog ==
    /\ IsLocal => response.json.file \in ResolvedList(request.mood)
    /\ \A m \in DOMAIN last_served_for_mood :
         last_served_for_mood[m] = None \/ last_served_for_mood[m] \in ResolvedList(m)
    /\ \A t \in Threads :
         in_flight[t].pc = "chosen" =>
           /\ in_flight[t].chosen \in ResolvedList(in_flight[t].mood)
           /\ in_flight[t].chosen # in_flight[t].previous
           /\ in_flight[t].previous = None
                \/ in_flight[t].previous \in ResolvedList(in_flight[t].mood)

\* the deviation: two requests for a mood with 2 files were in flight
\* together, and the response of the second carries the file of the first
C12_Witness ==
    /\ IsLocal
    /\ request.mood = "happy"
    /\ Len(OwnList("happy")) >= 2
    /\ response.json.file = previous_local
    /\ \A t \in Threads : in_flight[t] = Idle


\* the step is a request answered with a local file
LocalStep ==
    /\ request'.path = "/api/song"
    /\ response'.status = 200
    /\ response'.json.source = "local"

\* C13: a request answered with a local file sets the last-served entry of
\* its mood to the file of the response and leaves the entry of every other
\* mood as it was; every other request (external track, 404, /api/status, /)
\* leaves the whole map as it was.
C13_LastServedFrame ==
    [][IF LocalStep
       THEN /\ request'.mood \in DOMAIN last_served_for_mood'
            /\ last_served_for_mood'[request'.mood] = response'.json.file
            /\ \A m \in DOMAIN last_served_for_mood \ {request'.mood} :
                 /\ m \in DOMAIN last_served_for_mood'
                 /\ last_served_for_mood'[m] = last_served_for_mood[m]
       ELSE last_served_for_mood' = last_served_for_mood]_vars

\* a local response for happy while the entry of surprised is still the file
\* served for surprised before
C13_Witness ==
    /\ IsLocal
    /\ request.mood = "happy"
    /\ last_served_for_mood["happy"] = response.json.file
    /\ last_served_for_mood["surprised"] # None
    /\ last_served_for_mood["surprised"] = last_local["surprised"]
    /\ last_served_for_mood["surprised"] # response.json.file


\* C14 as stated: in every reachable state the last-served map has exactly
\* the seven moods as its keys, whatever song requests were made, those for
\* a mood outside the seven names included.
C14_FixedKeys == DOMAIN last_served_for_mood = Moods


\* C15: a request without the flag for which a local file can be resolved
\* makes no external call, with or without credentials, and ends in the
\* local-file response with source "local".
C15_LocalFirstWithoutFlag ==
    (IsSong /\ ~request.use_spotify /\ ~NothingLocal(request.mood))
    => /\ calls = <<>>
       /\ external = NoExternal
       /\ response.status = 200
       /\ response.json.ok
       /\ response.json.source = "local"

\* both credentials configured, no flag, a mood served from a fallback list
\* without a call
C15_Witness ==
    /\ IsLocal
    /\ ~request.use_spotify
    /\ BothCredentials
    /\ OwnList(request.mood) = <<>>
    /\ calls = <<>>


\* how many of the three terminal responses the latest response is
TerminalCount ==
    (IF IsSpotify THEN 1 ELSE 0) + (IF IsLocal THEN 1 ELSE 0)
      + (IF IsNotFound THEN 1 ELSE 0)

CandidatesNow(mood) ==
    LET previous == IF mood \in DOMAIN last_served_for_mood
                    THEN last_served_for_mood[mood] ELSE None
    IN  SelectSeq(resolve_files(mood), LAMBDA f : f # previous)

\* C17: in every reachable state and for every mood a request can name, a
\* resolved list of at least 2 files keeps at least one candidate once the
\* file last served for that mood is excluded: the choice from the full list
\* is never taken.
C17_CandidatesRemain ==
    \A mood \in Moods \cup {lowerMood(raw) : raw \in RequestMoods} :
      Len(resolve_files(mood)) >= 2 => CandidatesNow(mood) # <<>>

\* a second selection from a list of 2 files: the exclusion removed the file
\* served before and one candidate was left
C17_Witness ==
    /\ IsLocal
    /\ Len(resolve_files(request.mood)) = 2
    /\ previous_local \in Range(resolve_files(request.mood))
    /\ response.json.file # previous_local
    /\ Len(CandidatesNow(request.mood)) = 1


\* the moods that are no fallback for another mood
NeverFallback == {"surprised", "fearful", "disgusted"}

\* C18: a file of surprised, fearful or disgusted is returned only to a
\* request for that very mood: the file of a local response for another name
\* is in the list of that name or of neutral, happy, sad or angry; and
\* /api/status reports local_files_available exactly when some mood, these
\* three included, has a file.
C18_NoFallbackToRareMoods ==
    /\ IsLocal =>
         /\ \A m \in NeverFallback :
              response.json.file \in Range(mood_to_files[m]) => request.mood = m
         /\ response.json.file \in
              Range(OwnList(request.mood))
                \cup UNION {Range(mood_to_files[fb]) :
                              fb \in {"neutral", "happy", "sad", "angry"}}
    /\ request.path = "/api/status" =>
         response.json.local_files_available
           = (\E m \in Moods : mood_to_files[m] # <<>>)

\* a request for happy ends in 404 while surprised has a file, so that the
\* status reports local files
C18_Witness ==
    /\ IsNotFound
    /\ request.mood = "happy"
    /\ mood_to_files["surprised"] # <<>>
    /\ \E m \in Moods : Len(mood_to_files[m]) > 0


\* C19: with the provider not configured, after the same song requests and
\* the same random draws the full service and the local-only variant answer
\* the latest request with the same status and, when it is 200, the same
\* file, and their last-served maps are equal, whatever the flag.
C19_VariantAgrees ==
    /\ variant.last_served_for_mood = last_served_for_mood
    /\ IsSong =>
         /\ variant.response.status = response.status
         /\ response.status = 200 =>
              /\ variant.response.json.file = response.json.file
              /\ variant.response.json.path = response.json.path
              /\ variant.response.json.mood = response.json.mood

\* the flag set, and a second local answer of both services where the draw
\* chose among the files left after the exclusion
C19_Witness ==
    /\ IsLocal
    /\ request.use_spotify
    /\ previous_local # None
    /\ Len(resolve_files(request.mood)) >= 2
    /\ variant.response.status = 200
    /\ variant.last_served_for_mood[request.mood] = response.json.file


====
